---- MODULE Spec2Model ----
(***************************************************************************)
(* The request/response core of py_jama_client: the OAuth2 token lifecycle *)
(* of Core (core.py) and BaseClient (client.py), the single-call entry     *)
(* points get/post/put/patch/delete, and the pagination loop               *)
(* BaseClient.get_all / BaseClient.get_page.                               *)
(*                                                                         *)
(* The clock counts half seconds, so that time.time() has a fractional     *)
(* part and math.floor is a real conversion.  The HTTP session, the token  *)
(* endpoint and the resource server are the environment: their answers are *)
(* inputs of the actions.                                                  *)
(***************************************************************************)
EXTENDS Integers, Sequences, FiniteSets, TLC

\* ------------------------------------------------------------------ bounds
MaxClock == 3        \* the clock runs from 0 to MaxClock half seconds
MaxItems == 41       \* largest collection held by the server
MaxPages == 4        \* page requests followed within one get_all
MaxStatus == 600     \* largest status code of a response
MaxAdds == 2         \* additions to one envelope

\* ------------------------------------------------------- program constants
DEFAULT_ALLOWED_RESULTS_PER_PAGE == 20
HardCodedPageSize == 20
MinPageSize == 1
MaxPageSize == 50
ServerMaxPage == 50
TokenMargin == 60
TicksPerSecond == 2

\* ------------------------------------------------------------ input domains
Impls == {"Core", "BaseClient"}
Methods == {"get", "post", "put", "patch", "delete"}
None == "None"
TokenValues == {"tokA", "tokB"}
ExpiresChoices == {60, 61}
\* answers of the token endpoint: a status code (0 for a transport failure)
\* and, on 200 and 201, the access_token and expires_in of the JSON body
TokenOutcomes == {0, 200, 201, 204, 401}
TokenAnswers ==
  { [outcome |-> o, tok |-> "None", exp |-> -1] : o \in TokenOutcomes \ {200, 201} }
  \cup { [outcome |-> o, tok |-> t, exp |-> e] :
            o \in {200, 201}, t \in TokenValues, e \in ExpiresChoices }
\* the token endpoint is not asked
NoAnswer == [outcome |-> -1, tok |-> "None", exp |-> -1]
PageSizes == {0, 1, 2, 20, 50, 51}
\* a server that hands out full pages, and one that hands out pairs
ServerCaps == {2, ServerMaxPage}
\* the status the server gives to a single call: success, throttling, failure
ResourceAnswers == {200, 429, 500}
\* the time the token endpoint takes to answer, in ticks of the clock
Latencies == {0, 1}
Servers ==
  [total : 0..MaxItems, cap : ServerCaps, answer : ResourceAnswers,
   latency : Latencies]
\* response bodies: text that is not JSON, JSON without meta, meta without
\* message, and meta.message given by its words
NotJson == [json |-> FALSE, meta |-> FALSE, hasMessage |-> FALSE, words |-> <<>>]
NoMeta == [json |-> TRUE, meta |-> FALSE, hasMessage |-> FALSE, words |-> <<>>]
NoMessageBody == [json |-> TRUE, meta |-> TRUE, hasMessage |-> FALSE, words |-> <<>>]
WithMessage(words) ==
  [json |-> TRUE, meta |-> TRUE, hasMessage |-> TRUE, words |-> words]
AlreadyExists == WithMessage(<<"name", "already", "exists">>)
OtherMessage == WithMessage(<<"bad", "request">>)
Bodies ==
  {NotJson, NoMeta, NoMessageBody, AlreadyExists, OtherMessage,
   WithMessage(<<"already", "exists">>), WithMessage(<<"exists", "already">>),
   WithMessage(<<"already">>)}

\* status codes of a response, from below 1xx to above 5xx
StatusCodes == 0..MaxStatus

HOST == "host"
API_VERSION == "/rest/v1/"
TOKEN_PATH == "/rest/oauth/token"
CREDENTIALS == <<"client_id", "client_secret">>
NoAuth == <<>>
RESOURCE == "items"

\* header mappings; a header value is a tuple of words
NoHeaders == [k \in {} |-> <<>>]
HeaderChoices ==
  { NoHeaders,
    [k \in {"Accept", "Authorization"} |->
        IF k = "Accept" THEN <<"json">> ELSE <<"Basic", "stale">>] }

\* query parameter mappings; isNone stands for params=None
NoParams == [isNone |-> TRUE, map |-> [k \in {} |-> 0]]
ParamChoices ==
  { NoParams,
    [isNone |-> FALSE, map |-> [k \in {"project"} |-> 82]],
    [isNone |-> FALSE, map |-> [k \in {"project", "startAt", "maxResults"} |->
        IF k = "project" THEN 82 ELSE IF k = "startAt" THEN 7 ELSE 3]] }

\* params of a get_all: None, a mapping without the page keys, and one that
\* collides with them
PagingParams == ParamChoices

Min(a, b) == IF a < b THEN a ELSE b
Max(a, b) == IF a > b THEN a ELSE b

\* dict.update: every key of either mapping, the second winning
DictUpdate(a, b) ==
  [k \in (DOMAIN a) \cup (DOMAIN b) |-> IF k \in DOMAIN b THEN b[k] ELSE a[k]]

\* ------------------------------------------------------------------- state
VARIABLES
  impl,          \* the class holding the session: "Core" or "BaseClient"
  oauth,         \* self.__oauth
  status,        \* "ready", or "construct_failed" when __init__ raised
  auth,          \* [token, expires_in, acquired_at]: self.__token and friends
  clock,         \* time.time() in half seconds
  server,        \* the host: [total, cap, answer, latency]
  wire,          \* requests issued by the current (or last) call, in order
  call,          \* the last single call: what it was and how it ended
  ga,            \* the frame of get_all: arguments, locals, server it talks to
  resp,          \* a response handed to handle_response_status, and the result
  env            \* the operands of ClientResponse.__add__, and the result

vars == <<impl, oauth, status, auth, clock, server, wire, call, ga, resp, env>>

\* ------------------------------------------------------------ token handling
NoToken == [token |-> None, expires_in |-> -1, acquired_at |-> -1]

\* math.floor of a clock value, in seconds
Floor(clk) == clk \div TicksPerSecond

\* the POST of _get_fresh_token
TokenRequest ==
  [kind |-> "token", method |-> "post", url |-> <<HOST, TOKEN_PATH>>,
   auth |-> CREDENTIALS, headers |-> NoHeaders, params |-> NoParams]

TransportFailureOnly(outcome) == outcome < 200

\* httpx.post raising, or raise_for_status raising on a non-2xx answer
IsHTTPError(outcome) == outcome < 200 \/ outcome >= 300

get_fresh_token_swallow(cls, a, ans, clk) ==
  IF ans.outcome \in {200, 201}
  THEN [raised |-> "none",
        auth |-> [token |-> ans.tok, expires_in |-> ans.exp,
                  acquired_at |-> Floor(clk)]]
  ELSE [raised |-> "none", auth |-> a]

get_fresh_token_stamp_after(cls, a, ans, clk) ==
  IF IsHTTPError(ans.outcome)
  THEN [raised |-> "UnauthorizedTokenException", auth |-> a]
  ELSE IF ans.outcome \in {200, 201}
  THEN [raised |-> "none",
        auth |-> [token |-> ans.tok, expires_in |-> ans.exp,
                  acquired_at |-> Floor(clk + server.latency)]]
  ELSE IF cls = "Core"
  THEN [raised |-> "none", auth |-> a]
  ELSE [raised |-> "NameError", auth |-> a]

\* _get_fresh_token of either class: a is the token state before, outcome the
\* token endpoint's answer, clk the clock read before the request.
get_fresh_token(cls, a, ans, clk) ==
  IF IsHTTPError(ans.outcome)
  THEN [raised |-> "UnauthorizedTokenException", auth |-> a]
  ELSE IF ans.outcome \in {200, 201}
  THEN [raised |-> "none",
        auth |-> [token |-> ans.tok, expires_in |-> ans.exp,
                  acquired_at |-> Floor(clk)]]
  ELSE IF cls = "Core"
  THEN [raised |-> "none", auth |-> a]       \* logs "Failed to retrieve"
  ELSE [raised |-> "NameError", auth |-> a]  \* the logger name is undefined

\* time_remaining < 60, on the half-second clock
TimeRemaining2(a, clk) ==
  TicksPerSecond * a.expires_in - (clk - TicksPerSecond * a.acquired_at)

NeedsRefresh(a, clk) == TimeRemaining2(a, clk) < TicksPerSecond * TokenMargin

\* the outcome of a validity check that called _get_fresh_token once
Fetched(r) == [sent |-> <<TokenRequest>>, raised |-> r.raised, auth |-> r.auth]

\* _check_oauth_token / __check_oauth_token.  The name each branch calls is
\* resolved as Python resolves it inside the class: Core defines
\* _get_fresh_token only, BaseClient defines __get_fresh_token only.
check_oauth_token(cls, a, ans, clk) ==
  IF a.token = None
  THEN IF cls = "Core"
       THEN Fetched(get_fresh_token(cls, a, ans, clk))
       ELSE [sent |-> <<>>, raised |-> "AttributeError", auth |-> a]
  ELSE IF NeedsRefresh(a, clk)
  THEN IF cls = "BaseClient"
       THEN Fetched(get_fresh_token(cls, a, ans, clk))
       ELSE [sent |-> <<>>, raised |-> "AttributeError", auth |-> a]
  ELSE [sent |-> <<>>, raised |-> "none", auth |-> a]

KeepCallerAuthorization(headers, token) ==
  DictUpdate([k \in {"Authorization"} |-> <<"Bearer", token>>], headers)

\* _add_auth_header: the caller's headers with Authorization overwritten
add_auth_header(headers, token) ==
  DictUpdate(headers, [k \in {"Authorization"} |-> <<"Bearer", token>>])

\* ----------------------------------------------------------------- get_all
\* float("inf")
Infinity == -1

LessOrEqual(n, total) == total = Infinity \/ n <= total

\* the condition of the while loop: len(data) < total_results
LessThan(n, total) == total = Infinity \/ n < total

PrependPage(data, page_data) == page_data \o data

DropPage(data, page_data) == data

\* data.extend(page.data)
Extend(data, page_data) == data \o page_data

\* pc: "idle" outside get_all, "loop" at the head of the while loop with its
\* condition true, "returned" after the return, "raised" after an exception.
\* page_size is the argument as the caller passed it, params the caller's
\* mapping object and given its content at the call, pages the data of each
\* page fetched, infos its pageInfo.
IdleFrame ==
  [pc |-> "idle", page_size |-> 0, allowed_results_per_page |-> 0,
   params |-> NoParams, given |-> NoParams, start_index |-> 0,
   total_results |-> Infinity,
   data |-> <<>>, pages |-> <<>>, infos |-> <<>>, raised |-> "none"]

\* answer is what the token endpoint answered to the call (NoAnswer when it
\* was not asked); retired tells whether a renewal of the cached token has
\* been attempted since that token was acquired
NoCall == [op |-> "none", outcome |-> "none", headers |-> NoHeaders,
           before |-> NoToken, at |-> 0, answer |-> NoAnswer,
           retired |-> FALSE, response |-> 0]

\* ------------------------------------------------------------------- Init
\* __init__ of Core and of BaseClient: in OAuth mode the token is fetched
\* eagerly, and whatever _get_fresh_token raises ends the construction.
Construct(cls, oa, ans, clk) ==
  IF oa
  THEN LET r == get_fresh_token(cls, NoToken, ans, clk)
       IN [status |-> IF r.raised = "none" THEN "ready" ELSE "construct_failed",
           auth |-> r.auth]
  ELSE [status |-> "ready", auth |-> NoToken]

InitClient ==
  \E cls \in Impls, oa \in BOOLEAN, ans \in TokenAnswers :
    LET c == Construct(cls, oa, ans, 0) IN
    /\ server \in Servers
    /\ impl = cls
    /\ oauth = oa
    /\ status = c.status
    /\ auth = c.auth
    /\ clock = IF oa THEN server.latency ELSE 0
    /\ wire = <<>>
    /\ call = NoCall
    /\ ga = IdleFrame

\* the result of handle_response_status before it has run
NoResult == [returned |-> FALSE, raised |-> "none", status_code |-> 0,
             reason |-> [isNone |-> TRUE, words |-> <<>>]]

\* no response received; a response received and not yet handled
\* what a resource wrapper hands to its caller, before it has run
NoOut == [value |-> "none", raised |-> "none"]

NoResp == [pc |-> "none", status_code |-> 0, body |-> NotJson,
           result |-> NoResult, wrapper |-> "none", out |-> NoOut]
Received(st, body) ==
  [NoResp EXCEPT !.pc = "received", !.status_code = st, !.body = body]
Responses == {NoResp} \cup { Received(st, b) : st \in StatusCodes, b \in Bodies }

\* ClientResponse: the four fields of an envelope
ClientResponse(meta, links, linked, data) ==
  [meta |-> meta, links |-> links, linked |-> linked, data |-> data]

EmptyDict == <<>>
Metas == {EmptyDict} \cup { [k \in {"status"} |-> v] : v \in {"ma", "mb"} }
Links == {EmptyDict} \cup { [k \in {"self"} |-> v] : v \in {"la", "lb"} }

\* the entities under one top-level key of linked, by id
LinkedEntities ==
  { [i \in {1} |-> "x"], [i \in {1} |-> "y"], [i \in {2} |-> "x"],
    [i \in {1, 2} |-> IF i = 1 THEN "x" ELSE "y"] }
Linkeds ==
  {EmptyDict} \cup { [k \in {"items"} |-> n] : n \in LinkedEntities }
     \cup { [k \in {"users"} |-> [i \in {1} |-> "x"]] }
Datas == { <<>>, <<"d1">>, <<"d2", "d1">> }

ClientResponses ==
  { ClientResponse(m, l, k, d) :
      m \in Metas, l \in Links, k \in Linkeds, d \in Datas }

\* no envelopes at hand; two envelopes a and b, nothing added yet
EmptyResponse == ClientResponse(EmptyDict, EmptyDict, EmptyDict, <<>>)
NoEnv == [pc |-> "none", a |-> EmptyResponse, b |-> EmptyResponse,
          c |-> EmptyResponse, before |-> EmptyResponse, adds |-> 0,
          ret |-> "none", left |-> EmptyResponse, right |-> EmptyResponse]
Operands(a, b) ==
  [NoEnv EXCEPT !.pc = "ready", !.a = a, !.b = b, !.before = a]

\* three envelopes a, b and c to combine, no grouping evaluated yet
LinkedResponses ==
  { ClientResponse(EmptyDict, EmptyDict, k, d) : k \in Linkeds, d \in Datas }
Triple(a, b, c) == [NoEnv EXCEPT !.pc = "three", !.a = a, !.b = b, !.c = c]

Pairs == { Operands(a, b) : a \in ClientResponses, b \in ClientResponses }
Triples ==
  { Triple(a, b, c) : a \in LinkedResponses, b \in LinkedResponses,
                      c \in LinkedResponses }

Init ==
  /\ InitClient
  /\ resp \in Responses
  /\ env = NoEnv \/ env \in Pairs \/ env \in Triples

\* --------------------------------------------------------- single requests
ResourceRequest(method, url, au, headers, params) ==
  [kind |-> "resource", method |-> method, url |-> url, auth |-> au,
   headers |-> headers, params |-> params]

\* self.__host_name + resource
Url(resource) == <<HOST, API_VERSION, resource>>

AlwaysCredentials(oa) == CREDENTIALS

\* the auth argument of the session call: auth=self.__credentials in the
\* static branch, none in the OAuth branch
SessionAuth(oa) == IF oa THEN NoAuth ELSE CREDENTIALS

\* The body shared by get, post, put, patch and delete: the requests the call
\* puts on the wire, how it ends and the token state it leaves.
\* r is the outcome of the validity check (OAuth mode only).
SendAgain(method, headers, params, oa, r) ==
  LET request == ResourceRequest(method, Url(RESOURCE), SessionAuth(oa),
                                 IF oa /\ r.auth.token # None
                                 THEN add_auth_header(headers, r.auth.token)
                                 ELSE headers,
                                 params)
      tries == IF server.answer = 200 THEN <<request>>
               ELSE <<request, request>>
  IN IF ~oa
     THEN [wire |-> tries, outcome |-> "sent", auth |-> r.auth]
     ELSE IF r.raised # "none"
     THEN [wire |-> r.sent, outcome |-> r.raised, auth |-> r.auth]
     ELSE IF r.auth.token = None
     THEN [wire |-> r.sent, outcome |-> "TypeError", auth |-> r.auth]
     ELSE [wire |-> r.sent \o tries, outcome |-> "sent", auth |-> r.auth]

Send(method, headers, params, oa, r) ==
  IF ~oa
  THEN [wire |-> <<ResourceRequest(method, Url(RESOURCE), SessionAuth(oa),
                                   headers, params)>>,
        outcome |-> "sent", auth |-> r.auth]
  ELSE IF r.raised # "none"
  THEN [wire |-> r.sent, outcome |-> r.raised, auth |-> r.auth]
  ELSE IF r.auth.token = None
  THEN [wire |-> r.sent, outcome |-> "TypeError", auth |-> r.auth]
  ELSE [wire |-> Append(r.sent,
                   ResourceRequest(method, Url(RESOURCE), SessionAuth(oa),
                                   add_auth_header(headers, r.auth.token),
                                   params)),
        outcome |-> "sent", auth |-> r.auth]

NoCheck(a) == [sent |-> <<>>, raised |-> "none", auth |-> a]

Idle == status = "ready" /\ ga.pc # "loop"

\* whether the validity check of a call made now asks the token endpoint
AsksTokenEndpoint ==
  /\ oauth
  /\ \/ auth.token = None /\ impl = "Core"
     \/ auth.token # None /\ NeedsRefresh(auth, clock) /\ impl = "BaseClient"

AnswersNow == IF AsksTokenEndpoint THEN TokenAnswers ELSE {NoAnswer}

\* whether the cached token is one whose renewal has been attempted: it is
\* after a check that found it stale, until an acquisition succeeds
Retired(before, a, clk, r) ==
  IF r.sent # <<>> /\ r.raised = "none" /\ r.auth.token # None
  THEN FALSE
  ELSE IF a.token # None /\ NeedsRefresh(a, clk) THEN TRUE
  ELSE before

\* get / post / put / patch / delete of Core and of BaseClient
Request(method, headers, params, ans) ==
  /\ Idle
  /\ LET r == IF oauth
              THEN check_oauth_token(impl, auth, ans, clock)
              ELSE NoCheck(auth)
         s == Send(method, headers,
                   IF method = "delete" THEN NoParams ELSE params, oauth, r)
         waited == IF r.sent # <<>> THEN server.latency ELSE 0
     IN /\ clock + waited <= MaxClock
        /\ clock' = clock + waited
        /\ wire' = s.wire
        /\ auth' = s.auth
        /\ call' = [op |-> method, outcome |-> s.outcome, headers |-> headers,
                    before |-> auth, at |-> clock, answer |-> ans,
                    retired |-> Retired(call.retired, auth, clock, r),
                    response |-> IF s.outcome = "sent" THEN server.answer
                                 ELSE 0]
  /\ ga' = IdleFrame
  /\ UNCHANGED <<impl, oauth, status, server, resp, env>>

\* --------------------------------------------------------- status handling
\* the words of meta.message; isNone for a missing message
Message(words) == [isNone |-> FALSE, words |-> words]
NoResponse == Message(<<"No", "Response">>)
NoMessage == [isNone |-> TRUE, words |-> <<>>]

\* "already exists" in response_message
Contains(words, sub) ==
  \E i \in 1..Len(words) :
     /\ i + Len(sub) - 1 <= Len(words)
     /\ \A j \in 1..Len(sub) : words[i + j - 1] = sub[j]

\* json.loads(response.text) followed by .get("meta").get("message")
\* failed: .get("meta") gave None and None.get raised AttributeError
ResponseMessage(body) ==
  IF ~body.json THEN [failed |-> FALSE, message |-> NoResponse]
  ELSE IF ~body.meta THEN [failed |-> TRUE, message |-> NoResponse]
  ELSE IF ~body.hasMessage THEN [failed |-> FALSE, message |-> NoMessage]
  ELSE [failed |-> FALSE, message |-> Message(body.words)]

Raise(kind, st, reason) ==
  [returned |-> FALSE, raised |-> kind, status_code |-> st, reason |-> reason]

\* the reason phrase of the status line
Reason == Message(<<"reason", "phrase">>)

\* client.py binds its logger to the name py_jama_client_logger; the name its
\* handlers log through, py_jama_rest_client_logger, is bound nowhere in it
LoggerBound == FALSE

\* py_jama_rest_client_logger.error(...) and the statements after it
Logged(after) ==
  IF LoggerBound THEN after ELSE Raise("NameError", -1, NoMessage)

\* BaseClient.handle_response_status
handle_response_status(st, body) ==
  IF st \in 200..299
  THEN [returned |-> TRUE, raised |-> "none", status_code |-> st,
        reason |-> NoMessage]
  ELSE IF st \in 400..499
  THEN LET m == ResponseMessage(body) IN
       IF m.failed THEN Raise("AttributeError", -1, NoMessage)
       ELSE Logged(
         IF ~m.message.isNone
            /\ Contains(m.message.words, <<"already", "exists">>)
         THEN Raise("AlreadyExistsException", st, m.message)
         ELSE IF st = 401 THEN Raise("UnauthorizedException", st, m.message)
         ELSE IF st = 404
         THEN Raise("ResourceNotFoundException", st, m.message)
         ELSE IF st = 429
         THEN Raise("TooManyRequestsException", st, m.message)
         ELSE Raise("APIClientException", st, m.message))
  ELSE IF st \in 500..599
  THEN Logged(Raise("APIServerException", st, Reason))
  ELSE Logged(Raise("APIException", st, Reason))

\* a wrapper hands the response it received to handle_response_status
HandleResponse ==
  /\ resp.pc = "received"
  /\ resp' = [resp EXCEPT !.pc = "handled",
                !.result = handle_response_status(resp.status_code, resp.body)]
  /\ UNCHANGED <<impl, oauth, status, auth, clock, server, wire, call, ga, env>>

\* ClientResponse.from_response: response.json() and the four fields
from_response(body) ==
  IF body.json THEN [value |-> "envelope", raised |-> "none"]
  ELSE [value |-> "none", raised |-> "JSONDecodeError"]

\* BaselinesAPI.get_baseline, and every wrapper written like it: the call,
\* handle_response_status, from_response
get_baseline(st, body) ==
  LET h == handle_response_status(st, body)
  IN IF h.returned THEN from_response(body)
     ELSE [value |-> "none", raised |-> h.raised]

\* UsersAPI.get_user and get_current_user: the call, then from_response
get_user(st, body) == from_response(body)

\* BaselinesAPI.delete_baseline: the return of handle_response_status sits in
\* the except clause after its raise, so the method falls off its end
delete_baseline(st, body) == [value |-> "None", raised |-> "none"]

Wrappers == {"get_baseline", "get_user", "get_current_user", "delete_baseline"}

\* a resource wrapper whose call to the client gave the response
Wrap(w) ==
  /\ resp.pc = "received"
  /\ resp' = [resp EXCEPT
                !.pc = "wrapped", !.wrapper = w,
                !.out = IF w = "get_baseline"
                        THEN get_baseline(resp.status_code, resp.body)
                        ELSE IF w = "delete_baseline"
                        THEN delete_baseline(resp.status_code, resp.body)
                        ELSE get_user(resp.status_code, resp.body)]
  /\ UNCHANGED <<impl, oauth, status, auth, clock, server, wire, call, ga, env>>

\* ---------------------------------------------------------- ClientResponse
DictKeepFirst(a, b) ==
  [k \in (DOMAIN a) \cup (DOMAIN b) |-> IF k \in DOMAIN a THEN a[k] ELSE b[k]]

add_keep_first(a, b) ==
  ClientResponse(DictKeepFirst(a.meta, b.meta),
                 DictKeepFirst(a.links, b.links),
                 DictKeepFirst(a.linked, b.linked),
                 a.data \o b.data)

add_without_linked(a, b) ==
  ClientResponse(DictUpdate(a.meta, b.meta),
                 DictUpdate(a.links, b.links),
                 a.linked,
                 a.data \o b.data)

\* ClientResponse.__add__: the fields of self after the updates
add(a, b) ==
  ClientResponse(DictUpdate(a.meta, b.meta),
                 DictUpdate(a.links, b.links),
                 DictUpdate(a.linked, b.linked),
                 a.data \o b.data)

AddToCopy ==
  /\ env.pc \in {"ready", "added"}
  /\ env.adds < MaxAdds
  /\ env' = [env EXCEPT !.pc = "added", !.before = env.a,
                        !.ret = "new", !.adds = @ + 1]
  /\ UNCHANGED <<impl, oauth, status, auth, clock, server, wire, call, ga, resp>>

\* a + b: self is updated in place and returned (ret tells which object the
\* expression gave: self, other or a new one), other is left alone
Add ==
  /\ env.pc \in {"ready", "added"}
  /\ env.adds < MaxAdds
  /\ env' = [env EXCEPT !.pc = "added", !.before = env.a,
                        !.a = add(env.a, env.b), !.ret = "self",
                        !.adds = @ + 1]
  /\ UNCHANGED <<impl, oauth, status, auth, clock, server, wire, call, ga, resp>>

\* (a + b) + c on fresh copies of the three operands: a + b returns a, updated,
\* and c is added to it
CombineLeft ==
  /\ env.pc \in {"three", "right"}
  /\ env' = [env EXCEPT !.pc = IF env.pc = "three" THEN "left" ELSE "both",
                        !.left = add(add(env.a, env.b), env.c)]
  /\ UNCHANGED <<impl, oauth, status, auth, clock, server, wire, call, ga, resp>>

\* a + (b + c) on fresh copies: b + c returns b, updated, and it is added to a
CombineRight ==
  /\ env.pc \in {"three", "left"}
  /\ env' = [env EXCEPT !.pc = IF env.pc = "three" THEN "right" ELSE "both",
                        !.right = add(env.a, add(env.b, env.c))]
  /\ UNCHANGED <<impl, oauth, status, auth, clock, server, wire, call, ga, resp>>

\* ----------------------------------------------------------------- get_all
NonNegativePageSize(p) == ~(p < 0 \/ p > MaxPageSize)

\* the check of get_all's first statement
ValidPageSize(p) == ~(p < MinPageSize \/ p > MaxPageSize)

\* the collection endpoint: at most cap items per page, never more than
\* maxResults, starting at startAt; items are numbered from 1
ServerPage(total, cap, startAt, maxResults) ==
  LET count == Min(Min(maxResults, cap), Max(total - startAt, 0)) IN
  [pageInfo |-> [startIndex |-> startAt, resultCount |-> count,
                 totalResults |-> total],
   data |-> [i \in 1..count |-> startAt + i]]

\* get_all up to the head of its loop: the argument check and the locals
get_all_begin(page_size, params) ==
  /\ Idle
  /\ impl = "BaseClient"
  /\ wire' = <<>>
  /\ call' = [NoCall EXCEPT !.retired = call.retired]
  /\ ga' = IF ValidPageSize(page_size)
           THEN [IdleFrame EXCEPT !.pc = "loop", !.page_size = page_size,
                   !.allowed_results_per_page = HardCodedPageSize,
                   !.params = params, !.given = params]
           ELSE [IdleFrame EXCEPT !.pc = "raised", !.page_size = page_size,
                   !.params = params, !.given = params,
                   !.raised = "ValueError"]
  /\ UNCHANGED <<impl, oauth, status, auth, clock, server, resp, env>>

PaginationFromZero(start_at, allowed_results_per_page) ==
  [k \in {"startAt", "maxResults"} |->
     IF k = "startAt" THEN 0 ELSE allowed_results_per_page]

\* the pagination mapping of get_page and the mapping it sends
Pagination(start_at, allowed_results_per_page) ==
  [k \in {"startAt", "maxResults"} |->
     IF k = "startAt" THEN start_at ELSE allowed_results_per_page]

PageParams(params, start_at, allowed_results_per_page) ==
  [isNone |-> FALSE,
   map |-> IF params.isNone
           THEN Pagination(start_at, allowed_results_per_page)
           ELSE DictUpdate(params.map,
                           Pagination(start_at, allowed_results_per_page))]

\* the request get_page hands to the session: the resource as given, the
\* keyword arguments of the caller, nothing else
PageRequest(params) ==
  ResourceRequest("get", <<RESOURCE>>, NoAuth, NoHeaders, params)

get_page_on_copy(params, start_at, st, body, total, cap) ==
  LET sent == PageParams(params, start_at, DEFAULT_ALLOWED_RESULTS_PER_PAGE)
      h == handle_response_status(st, body)
  IN [request |-> PageRequest(sent),
      params |-> params,
      raised |-> IF st = 0 THEN "TransportError" ELSE h.raised,
      page |-> ServerPage(total, cap, sent.map["startAt"],
                          sent.map["maxResults"])]

\* get_page called by get_all: allowed_results_per_page is not passed on, so
\* the default applies
get_page(params, start_at, st, body, total, cap) ==
  LET sent == PageParams(params, start_at, DEFAULT_ALLOWED_RESULTS_PER_PAGE)
      h == handle_response_status(st, body)
  IN [request |-> PageRequest(sent),
      params |-> IF params.isNone THEN params ELSE sent,
      raised |-> IF st = 0 THEN "TransportError" ELSE h.raised,
      page |-> ServerPage(total, cap, sent.map["startAt"],
                          sent.map["maxResults"])]

\* one iteration of the while loop of get_all, and the return when the
\* condition fails afterwards
get_all_page(st, body) ==
  /\ status = "ready"
  /\ ga.pc = "loop"
  /\ Len(wire) < MaxPages
  /\ LET r == get_page(ga.params, ga.start_index, st, body,
                       server.total, server.cap)
         data == Extend(ga.data, r.page.data)
         total_results == r.page.pageInfo.totalResults
     IN /\ wire' = Append(wire, r.request)
        /\ ga' = IF r.raised # "none"
                 THEN [ga EXCEPT !.pc = "raised", !.raised = r.raised,
                                 !.params = r.params]
                 ELSE [ga EXCEPT
                         !.params = r.params,
                         !.start_index = r.page.pageInfo.startIndex
                                           + ga.allowed_results_per_page,
                         !.total_results = total_results,
                         !.data = data,
                         !.pages = Append(ga.pages, r.page.data),
                         !.infos = Append(ga.infos, r.page.pageInfo),
                         !.pc = IF LessThan(Len(data), total_results)
                                THEN "loop" ELSE "returned"]
  /\ UNCHANGED <<impl, oauth, status, auth, clock, server, call, resp, env>>

\* the answers of the resource server to a page request: an answer, a
\* failure of the transport, or an error status with its body
PageAnswers == { <<st, OtherMessage>> : st \in {0, 200, 404, 429, 500} }

\* time passes between calls and between the pages of a get_all
Tick ==
  /\ status = "ready"
  /\ clock < MaxClock
  /\ clock' = clock + 1
  /\ UNCHANGED <<impl, oauth, status, auth, server, wire, call, ga, resp, env>>

NextCalls ==
  \/ \E m \in Methods, h \in HeaderChoices, p \in ParamChoices,
        ans \in AnswersNow :
       Request(m, h, p, ans)
  \/ Tick

NextPaging ==
  \/ \E ps \in PageSizes, p \in PagingParams : get_all_begin(ps, p)
  \/ \E a \in PageAnswers : get_all_page(a[1], a[2])
  \/ Tick

NextStatus == HandleResponse

NextWrappers == \E w \in Wrappers : Wrap(w)

NextEnvelope == Add

NextCombine == CombineLeft \/ CombineRight

Next ==
  \/ NextCalls \/ NextPaging \/ NextStatus \/ NextWrappers
  \/ NextEnvelope \/ NextCombine

\* every operation of the client
Spec == Init /\ [][Next]_vars

\* the specifications below start from parts of Init
\* a client with no response and no envelopes at hand
Bare == resp = NoResp /\ env = NoEnv

\* the single calls and get_all, against one collection of two pages
NextClient == NextCalls \/ NextPaging
InitAll ==
  /\ Bare
  /\ server = [total |-> HardCodedPageSize + 1, cap |-> ServerMaxPage,
               answer |-> 200, latency |-> 0]
  /\ InitClient
SpecAll == InitAll /\ [][NextClient]_vars

\* the single-call entry points on their own; they never reach the collection
InitCalls ==
  /\ Bare
  /\ server = [total |-> 0, cap |-> ServerMaxPage, answer |-> 200,
               latency |-> 0]
  /\ InitClient
SpecCalls == InitCalls /\ [][NextCalls]_vars

\* get_all on its own, on a client whose construction succeeded
InitPaging ==
  /\ Bare
  /\ impl = "BaseClient" /\ status = "ready"
  /\ server \in { s \in Servers : s.answer = 200 /\ s.latency = 0 }
  /\ InitClient
SpecPaging == InitPaging /\ [][NextPaging]_vars

\* handle_response_status on its own, on every response
InitStatus ==
  /\ env = NoEnv
  /\ impl = "BaseClient" /\ oauth = FALSE
  /\ server = [total |-> 0, cap |-> ServerMaxPage, answer |-> 200,
               latency |-> 0]
  /\ InitClient
  /\ resp \in Responses \ {NoResp}
SpecStatus == InitStatus /\ [][NextStatus]_vars

\* the resource wrappers on their own, on every response
SpecWrappers == InitStatus /\ [][NextWrappers]_vars

\* ClientResponse.__add__ on its own, on every pair of envelopes
InitEnvelope ==
  /\ resp = NoResp
  /\ impl = "BaseClient" /\ oauth = FALSE
  /\ server = [total |-> 0, cap |-> ServerMaxPage, answer |-> 200,
               latency |-> 0]
  /\ InitClient
  /\ env \in Pairs
SpecEnvelope == InitEnvelope /\ [][NextEnvelope]_vars

\* the two groupings of a + b + c, on every triple of envelopes
InitCombine ==
  /\ resp = NoResp
  /\ impl = "BaseClient" /\ oauth = FALSE
  /\ server = [total |-> 0, cap |-> ServerMaxPage, answer |-> 200,
               latency |-> 0]
  /\ InitClient
  /\ env \in Triples
SpecCombine == InitCombine /\ [][NextCombine]_vars

\* BaseClient against a server that answers its single calls with throttling
\* or with a failure
InitRetry ==
  /\ Bare
  /\ impl = "BaseClient"
  /\ server \in { s \in Servers : /\ s.total = HardCodedPageSize + 1
                                  /\ s.cap = ServerMaxPage
                                  /\ s.answer # 200
                                  /\ s.latency = 0 }
  /\ InitClient
SpecRetry == InitRetry /\ [][NextClient]_vars

\* the single calls of an OAuth client whose token endpoint may take time
InitClock ==
  /\ Bare
  /\ oauth = TRUE
  /\ server \in { s \in Servers : /\ s.total = 0
                                  /\ s.cap = ServerMaxPage
                                  /\ s.answer = 200 }
  /\ InitClient
SpecClock == InitClock /\ [][NextCalls]_vars

\* ------------------------------------------------------------------ claims
RECURSIVE Flatten(_)
Flatten(pages) ==
  IF pages = <<>> THEN <<>> ELSE Head(pages) \o Flatten(Tail(pages))

CeilDiv(n, p) == (n + p - 1) \div p

TokenRequests == { i \in 1..Len(wire) : wire[i].kind = "token" }
ResourceRequests == { i \in 1..Len(wire) : wire[i].kind = "resource" }

InGetAll == ga.pc \in {"loop", "returned"} \/ (ga.pc = "raised" /\ wire # <<>>)

\* C1: when get_all(resource, params, P) returns for a collection of N items
\* on a server that serves full pages, it has issued exactly ceil(N / P) page
\* requests, and exactly one when N = 0.
C1_PageRequestCount ==
  (ga.pc = "returned" /\ server.cap = ServerMaxPage) =>
     Len(wire) = IF server.total = 0 THEN 1
                 ELSE CeilDiv(server.total, ga.page_size)

\* C2: when get_all returns, its data holds the N items of the collection,
\* each once and in the server's order, and is the concatenation of the
\* pages in the order they were fetched.
C2_DataComplete ==
  ga.pc = "returned" =>
     /\ Len(ga.data) = server.total
     /\ ga.data = [i \in 1..server.total |-> i]
     /\ ga.data = Flatten(ga.pages)

C2_Witness ==
  /\ ga.pc = "returned"
  /\ Len(ga.pages) = 3
  /\ Len(ga.data) = 41

\* C3: once the first page has reported totalResults = 0, get_all has
\* returned after exactly one page request, with empty data.
C3_EmptyCollection ==
  (Len(ga.infos) >= 1 /\ ga.infos[1].totalResults = 0) =>
     /\ ga.pc = "returned"
     /\ Len(wire) = 1
     /\ ga.data = <<>>

C3_Witness ==
  /\ ga.pc = "returned"
  /\ server.total = 0
  /\ Len(wire) = 1
  /\ ga.infos[1].totalResults = 0

\* C4: get_all raises ValueError exactly for the page sizes below 1 or above
\* 50, and a call that raised it has put no request on the wire (no page
\* request, no token request) and left the token as it was.
C4_Precondition ==
  ga.pc # "idle" =>
     /\ (ga.raised = "ValueError") <=> (ga.page_size < 1 \/ ga.page_size > 50)
     /\ ga.raised = "ValueError" => wire = <<>>

C4_Witness ==
  /\ ga.pc = "raised"
  /\ ga.raised = "ValueError"
  /\ ga.page_size = 0
  /\ wire = <<>>

\* C5: every page request of get_all(resource, params, P) carries
\* maxResults = P, and startAt and maxResults are the page's own values
\* whatever the caller put under these keys.
C5_PageParams ==
  InGetAll =>
     \A i \in 1..Len(wire) :
        /\ wire[i].params.map["maxResults"] = ga.page_size
        /\ wire[i].params.map["startAt"] =
              (IF i = 1 THEN 0
               ELSE ga.infos[i - 1].startIndex + ga.page_size)

\* C6: the startAt of every page request after the first is the startIndex
\* the previous page reported plus P; with P = 2 and a first page of
\* (startIndex 0, 2 items, total 3) the second request has startAt = 2.
C6_Stride ==
  InGetAll =>
     \A i \in 2..Len(wire) :
        wire[i].params.map["startAt"] = ga.infos[i - 1].startIndex + ga.page_size

\* remaining = acquired_at + expires_in - now at the time of the last call,
\* in half seconds
RemainingAtCall2 ==
  2 * (call.before.acquired_at + call.before.expires_in) - call.at

\* C7: in OAuth mode a call made with a cached token whose remaining
\* lifetime is below 60 seconds asks the token endpoint exactly once, before
\* its own request; one made with 60 seconds or more never asks it.
C7_RefreshBoundary ==
  (oauth /\ call.op \in Methods /\ call.before.token # None) =>
     IF RemainingAtCall2 < 120
     THEN /\ Cardinality(TokenRequests) = 1
          /\ \A i \in TokenRequests, j \in ResourceRequests : i < j
     ELSE TokenRequests = {}

\* C8: in OAuth mode every request sent by get, post, put, patch or delete
\* carries Authorization: Bearer <the token cached after the call's validity
\* check>, and every other header of the caller unchanged.
C8_BearerHeader ==
  (oauth /\ call.op \in Methods) =>
     \A i \in ResourceRequests :
        /\ auth.token # None
        /\ "Authorization" \in DOMAIN wire[i].headers
        /\ wire[i].headers["Authorization"] = <<"Bearer", auth.token>>
        /\ \A k \in (DOMAIN call.headers) \ {"Authorization"} :
              k \in DOMAIN wire[i].headers /\ wire[i].headers[k] = call.headers[k]

C8_Witness ==
  /\ oauth
  /\ call.op = "post"
  /\ call.outcome = "sent"
  /\ Len(wire) = 2 /\ wire[1].kind = "token" /\ wire[2].kind = "resource"
  /\ auth.token # call.before.token
  /\ "Authorization" \in DOMAIN call.headers
  /\ wire[2].headers["Accept"] = <<"json">>

\* C9: in OAuth mode every page request of get_all carries the bearer token
\* of the client.
C9_PagesAuthenticated ==
  (oauth /\ InGetAll) =>
     \A i \in ResourceRequests :
        /\ "Authorization" \in DOMAIN wire[i].headers
        /\ wire[i].headers["Authorization"] = <<"Bearer", auth.token>>

\* C10: in static-credential mode every request on the wire is a resource
\* request with the credential pair as basic auth, and the client holds no
\* token.
C10_StaticCredentials ==
  ~oauth =>
     /\ \A i \in 1..Len(wire) :
           wire[i].kind = "resource" /\ wire[i].auth = CREDENTIALS
     /\ auth = NoToken

\* whether the token cached before the last call was below the margin then
StaleAtCall == call.before.token # None /\ RemainingAtCall2 < 120

\* C11: a call whose token acquisition fails (the token endpoint cannot be
\* reached, or answers with an error status) ends with
\* UnauthorizedTokenException, which is not the error of a 401 on a resource,
\* and sends no resource request.
C11_TokenFailure ==
  (oauth /\ call.op \in Methods /\ TokenRequests # {}
     /\ (call.answer.outcome = 0 \/ call.answer.outcome >= 400)) =>
     /\ call.outcome = "UnauthorizedTokenException"
     /\ call.outcome # "UnauthorizedException"
     /\ ResourceRequests = {}

C11_Witness ==
  /\ oauth
  /\ call.op = "get"
  /\ StaleAtCall
  /\ call.answer.outcome = 401
  /\ call.outcome = "UnauthorizedTokenException"
  /\ Len(wire) = 1

\* C12: a client that __init__ has just returned in OAuth mode holds a token:
\* a bearer value, with acquired_at and expires_in set.
C12_EagerToken ==
  (oauth /\ status = "ready" /\ call.op = "none" /\ ga.pc = "idle") =>
     /\ auth.token # None
     /\ auth.expires_in >= 0
     /\ auth.acquired_at >= 0

\* C13: once the renewal of a cached token has been attempted, no resource
\* request goes out until an acquisition succeeds, and the request of a call
\* that found the token below the margin carries the token acquired by that
\* same call.
C13_OldTokenRetired ==
  (oauth /\ call.op \in Methods) =>
     /\ call.retired => ResourceRequests = {}
     /\ (StaleAtCall /\ ResourceRequests # {}) =>
           /\ call.answer.outcome \in {200, 201}
           /\ \A i \in ResourceRequests :
                 /\ wire[i].headers["Authorization"] = <<"Bearer", call.answer.tok>>
                 /\ \E j \in TokenRequests : j < i

C13_Witness ==
  /\ oauth
  /\ call.op \in Methods
  /\ StaleAtCall
  /\ Len(wire) = 2
  /\ wire[2].headers["Authorization"] = <<"Bearer", call.answer.tok>>
  /\ call.answer.tok # call.before.token

\* C14: in OAuth mode the credential pair travels as basic auth to the token
\* endpoint only: no resource request, single or page, carries it.
C14_CredentialsOnlyForToken ==
  oauth =>
     \A i \in 1..Len(wire) :
        /\ wire[i].kind = "resource" => wire[i].auth # CREDENTIALS
        /\ wire[i].auth = CREDENTIALS => wire[i].url = <<HOST, TOKEN_PATH>>

C14_Witness ==
  /\ oauth
  /\ Len(wire) = 2
  /\ wire[1].kind = "token" /\ wire[1].auth = CREDENTIALS
  /\ wire[2].kind = "resource" /\ wire[2].auth = NoAuth

\* ------------------------------------------------- handle_response_status
\* handle_response_status has run on the response
Handled == resp.pc = "handled"

ClientErrorStatus == resp.status_code \in 400..499

\* the body is JSON with a meta object that has a message
Readable == resp.body.json /\ resp.body.meta /\ resp.body.hasMessage

\* the message reads "... already exists ..."
SaysAlreadyExists ==
  /\ Readable
  /\ \E i \in 1..(Len(resp.body.words) - 1) :
        resp.body.words[i] = "already" /\ resp.body.words[i + 1] = "exists"

\* the error the status code alone selects among the 4xx
ByStatus(st) ==
  IF st = 401 THEN "UnauthorizedException"
  ELSE IF st = 404 THEN "ResourceNotFoundException"
  ELSE IF st = 429 THEN "TooManyRequestsException"
  ELSE "APIClientException"

TypedErrors ==
  {"AlreadyExistsException", "UnauthorizedException",
   "ResourceNotFoundException", "TooManyRequestsException",
   "APIClientException", "APIServerException", "APIException"}

\* C15: for every 4xx status, 401, 404 and 429 included, a response whose
\* meta.message contains "already exists" makes handle_response_status raise
\* AlreadyExistsException rather than the error of the status code.
C15_AlreadyExistsFirst ==
  (Handled /\ ClientErrorStatus /\ SaysAlreadyExists) =>
     resp.result.raised = "AlreadyExistsException"

\* C16: for a 4xx response whose message does not contain "already exists",
\* handle_response_status raises UnauthorizedException exactly for 401,
\* ResourceNotFoundException exactly for 404, TooManyRequestsException
\* exactly for 429 and APIClientException for every other 4xx.
C16_StatusDispatch ==
  (Handled /\ ClientErrorStatus /\ ~SaysAlreadyExists) =>
     resp.result.raised = ByStatus(resp.status_code)

\* C17: handle_response_status returns the status code exactly for 200-299,
\* raises APIServerException for 500-599 and APIException for every status
\* outside 200-299 and 400-599, and never returns for a non-2xx status.
C17_Total ==
  Handled =>
     /\ resp.result.returned <=> resp.status_code \in 200..299
     /\ resp.result.returned => resp.result.status_code = resp.status_code
     /\ ~resp.result.returned => resp.result.raised # "none"
     /\ resp.status_code \in 500..599 =>
           resp.result.raised = "APIServerException"
     /\ resp.status_code \notin (200..299) \cup (400..599) =>
           resp.result.raised = "APIException"

\* C18: for every 4xx response, whatever its body, handle_response_status
\* raises one of its typed errors, carrying the status code of the response
\* and as reason meta.message when it can be read, "No Response" otherwise.
C18_TypedReason ==
  (Handled /\ ClientErrorStatus) =>
     /\ resp.result.raised \in TypedErrors
     /\ resp.result.status_code = resp.status_code
     /\ resp.result.reason =
          IF Readable THEN Message(resp.body.words) ELSE NoResponse

\* ---------------------------------------------------------- ClientResponse
\* an addition has been made: env.before + env.b gave env.a
Added == env.pc = "added"

\* mapping r has every key of x and of y, with y's value where both have one
ShallowUpdated(r, x, y) ==
  /\ DOMAIN r = (DOMAIN x) \cup (DOMAIN y)
  /\ \A k \in DOMAIN y : r[k] = y[k]
  /\ \A k \in (DOMAIN x) \ (DOMAIN y) : r[k] = x[k]

\* sequence r is x followed by y
Followed(r, x, y) ==
  /\ Len(r) = Len(x) + Len(y)
  /\ \A i \in 1..Len(x) : r[i] = x[i]
  /\ \A i \in 1..Len(y) : r[Len(x) + i] = y[i]

\* C19: a + b has meta and links equal to a's shallow-updated with b's (every
\* key of either operand, b's value on a colliding key) and data equal to a's
\* items followed by b's items.
C19_ShallowMerge ==
  Added =>
     /\ ShallowUpdated(env.a.meta, env.before.meta, env.b.meta)
     /\ ShallowUpdated(env.a.links, env.before.links, env.b.links)
     /\ Followed(env.a.data, env.before.data, env.b.data)

C19_Witness ==
  /\ Added
  /\ env.adds = 1
  /\ DOMAIN env.before.meta = {"status"} /\ DOMAIN env.b.meta = {"status"}
  /\ env.before.meta["status"] # env.b.meta["status"]
  /\ DOMAIN env.before.links = {"self"} /\ DOMAIN env.b.links = {}
  /\ env.before.data = <<"d2", "d1">> /\ env.b.data = <<"d1">>
  /\ env.a.data = <<"d2", "d1", "d1">>

\* C20: when both operands have the same top-level key in linked, the nested
\* mappings under that key are merged entry by entry, b winning on a
\* colliding entry, so every entity under that key in either operand is in
\* the result.
C20_LinkedDeepMerge ==
  Added =>
     \A k \in (DOMAIN env.before.linked) \cap (DOMAIN env.b.linked) :
        ShallowUpdated(env.a.linked[k], env.before.linked[k], env.b.linked[k])

\* both groupings of a + b + c have been evaluated
Combined == env.pc = "both"

OperandKeys ==
  (DOMAIN env.a.linked) \cup (DOMAIN env.b.linked) \cup (DOMAIN env.c.linked)

\* C21: the data of (a + b) + c equals the data of a + (b + c), and the
\* linked of either grouping has every top-level key of the linked of any of
\* the three operands.
C21_Associative ==
  Combined =>
     /\ env.left.data = env.right.data
     /\ OperandKeys \subseteq DOMAIN env.left.linked
     /\ OperandKeys \subseteq DOMAIN env.right.linked

C21_Witness ==
  /\ Combined
  /\ env.a.data = <<"d1">> /\ env.b.data = <<"d2", "d1">>
  /\ env.c.data = <<"d1">>
  /\ env.left.data = <<"d1", "d2", "d1", "d1">>
  /\ DOMAIN env.a.linked = {} /\ DOMAIN env.b.linked = {"items"}
  /\ DOMAIN env.c.linked = {"users"}
  /\ DOMAIN env.right.linked = {"items", "users"}

\* ------------------------------------------------------------------ failures
\* C22: when a page request of get_all fails, by the transport or by a
\* non-2xx status, get_all raises one of the typed errors and hands no
\* envelope to its caller.
C22_NoPartialResult ==
  (InGetAll /\ ga.pc = "raised") => ga.raised \in TypedErrors

\* C23: a resource wrapper whose response has a non-2xx status raises a
\* typed error: it returns no envelope, no status code and no None.
C23_WrappersRaise ==
  (resp.pc = "wrapped" /\ resp.status_code \notin 200..299) =>
     /\ resp.out.value = "none"
     /\ resp.out.raised \in TypedErrors

\* C24: the core never retries. A single call that is answered has sent
\* exactly one resource request and hands that answer to its caller, also
\* when the answer is 429 or 5xx, and no call sends more than one; get_all
\* has sent exactly one request for each page it merged, and one more for
\* the page that failed.
C24_NoRetry ==
  /\ call.op \in Methods =>
        /\ Cardinality(ResourceRequests) <= 1
        /\ call.outcome = "sent" =>
              /\ Cardinality(ResourceRequests) = 1
              /\ call.response = server.answer
  /\ InGetAll =>
        /\ ResourceRequests = 1..Len(wire)
        /\ Len(wire) = Len(ga.pages) + (IF ga.pc = "raised" THEN 1 ELSE 0)

C24_Witness ==
  /\ call.op = "post"
  /\ call.outcome = "sent"
  /\ call.response = 429
  /\ Cardinality(ResourceRequests) = 1

\* ------------------------------------------------------------------ order
StartAt(i) == wire[i].params.map["startAt"]

\* the page requests on the wire have strictly increasing startAt
Increasing ==
  \A i \in 1..Len(wire) : \A j \in 1..Len(wire) :
     i < j => StartAt(i) < StartAt(j)

IsPrefix(x, y) == Len(x) <= Len(y) /\ \A i \in 1..Len(x) : x[i] = y[i]

\* C25: within one get_all the page requests are issued one after the other
\* with strictly increasing startAt, and the data accumulated after k pages
\* is a prefix of the data accumulated after k + 1 pages.
C25_InOrder ==
  [][ga.pc = "loop" =>
       /\ Len(wire') <= Len(wire) + 1
       /\ IsPrefix(wire, wire')
       /\ InGetAll' => Increasing'
       /\ IsPrefix(ga.data, ga'.data)
       /\ ga'.data = Flatten(ga'.pages)]_vars

C25_Witness ==
  /\ ga.pc = "returned"
  /\ Len(wire) = 3
  /\ StartAt(1) = 0 /\ StartAt(2) = 20 /\ StartAt(3) = 40
  /\ Len(ga.data) = 41

\* C26: every request for a resource path, from a single call or from a page
\* request of get_all, targets host + api_version + resource path.
C26_PrefixedUrl ==
  \A i \in ResourceRequests : wire[i].url = <<HOST, API_VERSION, RESOURCE>>

\* the last call acquired the token the client now holds
AcquiredInCall ==
  /\ oauth
  /\ call.op \in Methods
  /\ TokenRequests # {}
  /\ call.answer.outcome \in {200, 201}

\* C27: after a successful token acquisition acquired_at is the clock read
\* before the token request was sent, rounded down to the second: it is not
\* later than the send time, and acquired_at + expires_in - now is not more
\* than the lifetime left to a token issued when the request was sent.
C27_StampBeforeRequest ==
  AcquiredInCall =>
     /\ TicksPerSecond * auth.acquired_at <= call.at
     /\ call.at < TicksPerSecond * (auth.acquired_at + 1)
     /\ TicksPerSecond * (auth.acquired_at + auth.expires_in) - clock
           <= (call.at + TicksPerSecond * auth.expires_in) - clock

C27_Witness ==
  /\ AcquiredInCall
  /\ server.latency = 1
  /\ call.at = 1
  /\ clock = 2
  /\ auth.acquired_at = 0

\* ------------------------------------------------------------ termination
\* the number of items of the first k pages fetched
Accumulated(k) == Len(Flatten(SubSeq(ga.pages, 1, k)))

\* every page that came while fewer than N items were accumulated had an item
Productive ==
  \A k \in 1..Len(ga.pages) :
     Accumulated(k - 1) < server.total => Len(ga.pages[k]) >= 1

\* get_all returns only with at least as many items as the last page reported
ReturnsComplete ==
  ga.pc = "returned" =>
     Len(ga.data) >= ga.infos[Len(ga.infos)].totalResults

\* C28 as stated: against a server that reports totalResults = N and whose
\* pages are never empty while fewer than N items are accumulated, get_all
\* issues at most N page requests, and it returns only with at least as many
\* items as the last page reported.
C28_AtMostN ==
  (InGetAll /\ Productive) =>
     /\ Len(wire) <= server.total
     /\ ReturnsComplete

\* C28 amended: at most N page requests, and one when N = 0; the loop goes
\* on only while fewer requests than that have been issued.
C28_AtMostNOrOne ==
  (InGetAll /\ Productive) =>
     /\ Len(wire) <= Max(server.total, 1)
     /\ ga.pc = "loop" => Len(wire) < Max(server.total, 1)
     /\ ReturnsComplete

C28_Witness ==
  /\ ga.pc = "returned"
  /\ Productive
  /\ server.total = 1
  /\ Len(wire) = 1
  /\ ga.data = <<1>>

\* ------------------------------------------------------------------ frames
PageKeys == {"startAt", "maxResults"}

\* C29: get_all writes the pagination keys into the mapping the caller gave
\* as params: once a page has been requested the mapping holds the startAt
\* and maxResults of the last page requested, and its other keys are as the
\* caller gave them.
C29_ParamsWritten ==
  (InGetAll /\ wire # <<>> /\ ~ga.given.isNone) =>
     /\ ~ga.params.isNone
     /\ DOMAIN ga.params.map = (DOMAIN ga.given.map) \cup PageKeys
     /\ ga.params.map["startAt"] = StartAt(Len(wire))
     /\ ga.params.map["startAt"] = HardCodedPageSize * (Len(wire) - 1)
     /\ ga.params.map["maxResults"] = wire[Len(wire)].params.map["maxResults"]
     /\ \A k \in (DOMAIN ga.given.map) \ PageKeys :
           ga.params.map[k] = ga.given.map[k]

C29_Witness ==
  /\ ga.pc = "returned"
  /\ Len(wire) = 2
  /\ DOMAIN ga.given.map = {"project"}
  /\ DOMAIN ga.params.map = {"project", "startAt", "maxResults"}
  /\ ga.params.map["startAt"] = 20
  /\ ga.params.map["project"] = 82

\* C30: a + b merges in place: it gives back a itself, with meta, links and
\* linked updated from b and b's items appended to data, and leaves b as it
\* was; each further addition to the same envelope appends b's items again.
C30_InPlace ==
  [][env'.adds = env.adds + 1 =>
       /\ env'.ret = "self"
       /\ ShallowUpdated(env'.a.meta, env.a.meta, env.b.meta)
       /\ ShallowUpdated(env'.a.links, env.a.links, env.b.links)
       /\ ShallowUpdated(env'.a.linked, env.a.linked, env.b.linked)
       /\ Followed(env'.a.data, env.a.data, env.b.data)
       /\ Len(env'.a.data) = Len(env.a.data) + Len(env.b.data)
       /\ env'.b = env.b]_vars

C30_Witness ==
  /\ Added
  /\ env.adds = 2
  /\ env.ret = "self"
  /\ env.b.data = <<"d2", "d1">>
  /\ env.before.data = <<"d1", "d2", "d1">>
  /\ env.a.data = <<"d1", "d2", "d1", "d2", "d1">>

============================================================================
